---- MODULE Spec2Model ----
(***************************************************************************)
(* StaticArray of src/data_structures/ds_array/static_array.rs: a flat     *)
(* buffer of f32 addressed through a shape vector, row-major.              *)
(*                                                                         *)
(* Every failure of the code is a panic!.  The model records which panic   *)
(* site fired under the name the specification gives that failure:         *)
(*   ShapeMismatch          _check_shape_capacity_match, from              *)
(*                          new_from_array                                 *)
(*   CapacityMismatch       reshape's own panic, and                       *)
(*                          _check_shape_capacity_match from get_view      *)
(*   DimensionMismatch      _check_index_within_bounds, length test        *)
(*   IndexOutOfBounds       _check_index_within_bounds, component test,    *)
(*                          and get_subarray's Ordering::Greater arm       *)
(*   UseScalarAccessInstead get_subarray's Ordering::Equal arm             *)
(*   RuntimePanic           a panic raised by Rust itself (slice range,    *)
(*                          index or arithmetic overflow)                  *)
(* Sequences are 1-based here and 0-based in the code; a dimension number  *)
(* reported in `dim` is the code's 0-based one.                            *)
(***************************************************************************)
EXTENDS Integers, Sequences, FiniteSets, TLC

VARIABLES arrays, heap, ret

vars == <<arrays, heap, ret>>

\* Bounds of the model.
MaxRank == 3
MaxDim == 2
MaxCap == 4
MaxVal == 1

\* f32 element values, Vec<usize> shapes and &[usize] indices drawn by callers.
Values == 0..MaxVal
Dims == 0..MaxDim
SeqsUpTo(S, n) == UNION {[1..k -> S] : k \in 0..n}
Shapes == SeqsUpTo(Dims, MaxRank)
Indices == SeqsUpTo(Dims, MaxRank + 1)
Buffers == SeqsUpTo(Values, MaxCap)

\* The two bindings a caller holds: the constructed array and the array last
\* returned by get_subarray / get_view.
Parent == "array"
Child == "sub"
Slots == {Parent, Child}

\* _shape.iter().product()
RECURSIVE Product(_)
Product(s) == IF Len(s) = 0 THEN 1 ELSE Head(s) * Product(Tail(s))

\* vec![_value; capacity]
Repeat(v, n) == [i \in 1..n |-> v]

\* struct StaticArray { capacity, data, shape }; data is the address of the
\* Vec's heap buffer, whose contents are heap[data].
StaticArray(capacity, data, shape) ==
    [capacity |-> capacity, data |-> data, shape |-> shape]

Live(a) == a \in DOMAIN arrays
DataOf(a) == heap[arrays[a].data]
ShapeOf(a) == arrays[a].shape
CapacityOf(a) == arrays[a].capacity

Put(f, k, v) == [x \in (DOMAIN f) \cup {k} |-> IF x = k THEN v ELSE f[x]]
Remove(f, k) == [x \in (DOMAIN f) \ {k} |-> f[x]]

\* What the last call was given and what it produced.
NoRet ==
    [op |-> "none", target |-> Parent, index |-> <<>>, value |-> 0,
     shape |-> <<>>, some |-> FALSE, values |-> <<>>,
     err |-> "None", dim |-> 0, out |-> 0,
     index_end |-> <<>>, slice |-> <<>>, strides |-> <<>>,
     other |-> Parent, equal |-> FALSE]

Init ==
    /\ arrays = <<>>
    /\ heap = <<>>
    /\ ret = NoRet

\* fn _new_array_with_value(_value, _shape): the buffer is allocated at the
\* binding's own address.
NewArrayWithValue(slot, value, shape, name) ==
    /\ ~Live(slot)
    /\ Product(shape) <= MaxCap
    /\ arrays' = Put(arrays, slot, StaticArray(Product(shape), slot, shape))
    /\ heap' = Put(heap, slot, Repeat(value, Product(shape)))
    /\ ret' = [NoRet EXCEPT !.op = name, !.target = slot, !.shape = shape,
                            !.value = value]

NewZeros(shape) == NewArrayWithValue(Parent, 0, shape, "new_zeros")

NewOnes(shape) == NewArrayWithValue(Parent, 1, shape, "new_ones")

NewFill(shape, fill_value) == NewArrayWithValue(Parent, fill_value, shape, "new_fill")

\* Mutant of CheckShapeCapacityMatch: the rank is compared instead of the
\* product.
CheckShapeCapacityMatchRank(capacity, shape) == Len(shape) <= capacity

\* fn _check_shape_capacity_match: TRUE when it returns true, FALSE when it
\* panics.
CheckShapeCapacityMatch(capacity, shape) == Product(shape) = capacity

\* shape.unwrap_or_else(|| Vec::from([capacity]))
UnwrapOrElse(some, shape, capacity) == IF some THEN shape ELSE <<capacity>>

NewFromArray(values, some, shape) ==
    LET capacity == Len(values)
        shp == UnwrapOrElse(some, shape, capacity)
        call == [NoRet EXCEPT !.op = "new_from_array", !.target = Parent,
                              !.values = values, !.some = some, !.shape = shape]
    IN  /\ ~Live(Parent)
        /\ IF CheckShapeCapacityMatch(capacity, shp)
           THEN /\ arrays' = Put(arrays, Parent, StaticArray(capacity, Parent, shp))
                /\ heap' = Put(heap, Parent, values)
                /\ ret' = call
           ELSE /\ ret' = [call EXCEPT !.err = "ShapeMismatch"]
                /\ UNCHANGED <<arrays, heap>>

\* fn _check_index_within_bounds: the error its first failing test raises
\* ("None" when it returns true) and the 0-based dimension it reports.
RECURSIVE BoundsLoop(_, _, _)
BoundsLoop(shape, access_index, i) ==
    IF i > Len(access_index) THEN [err |-> "None", dim |-> 0]
    ELSE IF access_index[i] >= shape[i]
         THEN [err |-> "IndexOutOfBounds", dim |-> i - 1]
         ELSE BoundsLoop(shape, access_index, i + 1)

CheckIndexWithinBounds(shape, access_index) ==
    IF Len(access_index) # Len(shape)
    THEN [err |-> "DimensionMismatch", dim |-> 0]
    ELSE BoundsLoop(shape, access_index, 1)

\* fn _calculate_strides: vec![1; len], then for i in (0..len - 1).rev().
\* With an empty shape `len - 1` underflows: a panic in a debug build, and in
\* a release build the wrapped range starts at an index outside `strides`,
\* which panics too.
RECURSIVE StridesLoop(_, _, _)
StridesLoop(shape, strides, i) ==
    IF i < 1 THEN strides
    ELSE StridesLoop(shape,
                     [strides EXCEPT ![i] = strides[i + 1] * shape[i + 1]],
                     i - 1)

CalculateStrides(shape) ==
    IF Len(shape) = 0
    THEN [ok |-> FALSE, val |-> <<>>]
    ELSE [ok |-> TRUE,
          val |-> StridesLoop(shape, Repeat(1, Len(shape)), Len(shape) - 1)]

\* array._calculate_strides(), as the module's own code calls it: the strides
\* of the array's current shape, or the panic of the empty shape.
CallCalculateStrides(a) ==
    LET strides == CalculateStrides(ShapeOf(a))
        call == [NoRet EXCEPT !.op = "_calculate_strides", !.target = a]
    IN  /\ Live(a)
        /\ ret' = IF ~strides.ok
                  THEN [call EXCEPT !.err = "RuntimePanic"]
                  ELSE [call EXCEPT !.strides = strides.val]
        /\ UNCHANGED <<arrays, heap>>

\* fn _calculate_flat_index: walks the indices from the last one, reading
\* shape[len - 1 - i] after each; an index longer than the shape makes that
\* subscript underflow, a panic in either build.
RECURSIVE FlatLoop(_, _, _, _, _)
FlatLoop(shape, indices, i, flat_index, stride) ==
    IF i = Len(indices) THEN [ok |-> TRUE, val |-> flat_index]
    ELSE IF Len(shape) - 1 - i < 0 THEN [ok |-> FALSE, val |-> 0]
    ELSE FlatLoop(shape, indices, i + 1,
                  flat_index + indices[Len(indices) - i] * stride,
                  stride * shape[Len(shape) - i])

\* Mutant of CalculateFlatIndex: the indices are walked first to last.
RECURSIVE FlatLoopForward(_, _, _, _, _)
FlatLoopForward(shape, indices, i, flat_index, stride) ==
    IF i = Len(indices) THEN [ok |-> TRUE, val |-> flat_index]
    ELSE IF Len(shape) - 1 - i < 0 THEN [ok |-> FALSE, val |-> 0]
    ELSE FlatLoopForward(shape, indices, i + 1,
                         flat_index + indices[i + 1] * stride,
                         stride * shape[Len(shape) - i])

CalculateFlatIndexForward(shape, indices) ==
    FlatLoopForward(shape, indices, 0, 0, 1)

\* Mutant of CalculateFlatIndex: the stride is never advanced.
RECURSIVE FlatLoopNoStride(_, _, _, _)
FlatLoopNoStride(shape, indices, i, flat_index) ==
    IF i = Len(indices) THEN [ok |-> TRUE, val |-> flat_index]
    ELSE IF Len(shape) - 1 - i < 0 THEN [ok |-> FALSE, val |-> 0]
    ELSE FlatLoopNoStride(shape, indices, i + 1,
                          flat_index + indices[Len(indices) - i])

CalculateFlatIndexNoStride(shape, indices) ==
    FlatLoopNoStride(shape, indices, 0, 0)

CalculateFlatIndex(shape, indices) == FlatLoop(shape, indices, 0, 0, 1)

\* self.data[flat_index], 0-based in the code: a panic past the end.
ElementAt(data, flat_index) ==
    IF flat_index < Len(data)
    THEN [ok |-> TRUE, val |-> data[flat_index + 1]]
    ELSE [ok |-> FALSE, val |-> 0]

\* pub fn get_element_at(&self, access_index) -> f32
GetElementAt(a, access_index) ==
    LET chk == CheckIndexWithinBounds(ShapeOf(a), access_index)
        flat_index == CalculateFlatIndex(ShapeOf(a), access_index)
        elem == ElementAt(DataOf(a), flat_index.val)
        call == [NoRet EXCEPT !.op = "get_element_at", !.target = a,
                              !.index = access_index]
    IN  /\ Live(a)
        /\ ret' = IF chk.err # "None"
                  THEN [call EXCEPT !.err = chk.err, !.dim = chk.dim]
                  ELSE IF ~flat_index.ok \/ ~elem.ok
                  THEN [call EXCEPT !.err = "RuntimePanic"]
                  ELSE [call EXCEPT !.out = elem.val]
        /\ UNCHANGED <<arrays, heap>>

\* impl Index<&[usize]> for StaticArray: array[&index]
Index(a, index) ==
    LET chk == CheckIndexWithinBounds(ShapeOf(a), index)
        flat_index == CalculateFlatIndex(ShapeOf(a), index)
        elem == ElementAt(DataOf(a), flat_index.val)
        call == [NoRet EXCEPT !.op = "index", !.target = a, !.index = index]
    IN  /\ Live(a)
        /\ ret' = IF chk.err # "None"
                  THEN [call EXCEPT !.err = chk.err, !.dim = chk.dim]
                  ELSE IF ~flat_index.ok \/ ~elem.ok
                  THEN [call EXCEPT !.err = "RuntimePanic"]
                  ELSE [call EXCEPT !.out = elem.val]
        /\ UNCHANGED <<arrays, heap>>

\* Mutant of IndexMut: the bounds check is skipped.
IndexMutUnchecked(a, index, value) ==
    LET flat == CalculateFlatIndex(ShapeOf(a), index)
        call == [NoRet EXCEPT !.op = "index_mut", !.target = a,
                              !.index = index, !.value = value]
    IN  /\ Live(a)
        /\ IF ~flat.ok \/ flat.val >= Len(DataOf(a))
           THEN /\ ret' = [call EXCEPT !.err = "RuntimePanic"]
                /\ UNCHANGED <<arrays, heap>>
           ELSE /\ heap' = [heap EXCEPT ![arrays[a].data][flat.val + 1] = value]
                /\ ret' = call
                /\ UNCHANGED arrays

\* impl IndexMut<&[usize]> for StaticArray, and the assignment through the
\* reference it returns: array[&index] = value
IndexMut(a, index, value) ==
    LET chk == CheckIndexWithinBounds(ShapeOf(a), index)
        flat == CalculateFlatIndex(ShapeOf(a), index)
        call == [NoRet EXCEPT !.op = "index_mut", !.target = a,
                              !.index = index, !.value = value]
    IN  /\ Live(a)
        /\ IF chk.err # "None"
           THEN /\ ret' = [call EXCEPT !.err = chk.err, !.dim = chk.dim]
                /\ UNCHANGED <<arrays, heap>>
           ELSE IF ~flat.ok \/ flat.val >= Len(DataOf(a))
           THEN /\ ret' = [call EXCEPT !.err = "RuntimePanic"]
                /\ UNCHANGED <<arrays, heap>>
           ELSE /\ heap' = [heap EXCEPT ![arrays[a].data][flat.val + 1] = value]
                /\ ret' = call
                /\ UNCHANGED arrays

\* Mutant of Reshape: the capacity test is left out.
ReshapeUnchecked(a, new_shape) ==
    /\ Live(a)
    /\ arrays' = [arrays EXCEPT ![a].shape = new_shape]
    /\ ret' = [NoRet EXCEPT !.op = "reshape", !.target = a, !.shape = new_shape]
    /\ UNCHANGED heap

\* pub fn reshape(&mut self, new_shape)
Reshape(a, new_shape) ==
    LET new_capacity == Product(new_shape)
        call == [NoRet EXCEPT !.op = "reshape", !.target = a, !.shape = new_shape]
    IN  /\ Live(a)
        /\ IF new_capacity # CapacityOf(a)
           THEN /\ ret' = [call EXCEPT !.err = "CapacityMismatch"]
                /\ UNCHANGED <<arrays, heap>>
           ELSE /\ arrays' = [arrays EXCEPT ![a].shape = new_shape]
                /\ ret' = call
                /\ UNCHANGED heap

\* access_index.iter().zip(&strides).map(|(i, s)| i * s).sum(): zip stops at
\* the shorter of the two.
RECURSIVE ZipSum(_, _)
ZipSum(access_index, strides) ==
    IF Len(access_index) = 0 \/ Len(strides) = 0 THEN 0
    ELSE Head(access_index) * Head(strides)
         + ZipSum(Tail(access_index), Tail(strides))

\* Mutant of SliceRange: the element at `end` is included.
SliceRangeInclusive(data, start, end) ==
    IF start <= end /\ end < Len(data)
    THEN [ok |-> TRUE, val |-> SubSeq(data, start + 1, end + 1)]
    ELSE [ok |-> FALSE, val |-> <<>>]

\* self.data[start..end]: a panic unless start <= end <= len.
SliceRange(data, start, end) ==
    IF start <= end /\ end <= Len(data)
    THEN [ok |-> TRUE, val |-> SubSeq(data, start + 1, end)]
    ELSE [ok |-> FALSE, val |-> <<>>]

\* fn _check_end_index_greater_than_start_index: compares the flat offsets of
\* the two indices as given; _calculate_flat_index runs on them before any
\* bounds check, so an index longer than the shape panics inside it.
CheckEndIndexGreaterThanStartIndex(shape, start_index, end_index) ==
    LET start == CalculateFlatIndex(shape, start_index)
        end == CalculateFlatIndex(shape, end_index)
    IN  IF ~start.ok \/ ~end.ok THEN "RuntimePanic"
        ELSE IF start.val <= end.val THEN "None"
        ELSE "InvalidRange"

\* pub fn get_elements_slice(&self, access_index_start, access_index_end)
\*     -> &[f32]
GetElementsSlice(a, access_index_start, access_index_end) ==
    LET shape == ShapeOf(a)
        call == [NoRet EXCEPT !.op = "get_elements_slice", !.target = a,
                              !.index = access_index_start,
                              !.index_end = access_index_end]
        ret_check_indices ==
            CheckEndIndexGreaterThanStartIndex(shape, access_index_start,
                                               access_index_end)
        chk_start == CheckIndexWithinBounds(shape, access_index_start)
        chk_end == CheckIndexWithinBounds(shape, access_index_end)
        start_index == CalculateFlatIndex(shape, access_index_start)
        end_index == CalculateFlatIndex(shape, access_index_end)
        slice == SliceRange(DataOf(a), start_index.val, end_index.val)
    IN  /\ Live(a)
        /\ ret' = IF ret_check_indices # "None"
                  THEN [call EXCEPT !.err = ret_check_indices]
                  ELSE IF chk_start.err # "None"
                  THEN [call EXCEPT !.err = chk_start.err, !.dim = chk_start.dim]
                  ELSE IF chk_end.err # "None"
                  THEN [call EXCEPT !.err = chk_end.err, !.dim = chk_end.dim]
                  ELSE IF ~slice.ok
                  THEN [call EXCEPT !.err = "RuntimePanic"]
                  ELSE [call EXCEPT !.slice = slice.val]
        /\ UNCHANGED <<arrays, heap>>

\* Mutant of Cmp: equal lengths are taken for Less.
CmpNoEqual(x, y) == IF x > y THEN "Greater" ELSE "Less"

\* access_index.len().cmp(&self.shape.len())
Cmp(x, y) == IF x > y THEN "Greater" ELSE IF x = y THEN "Equal" ELSE "Less"

\* get_subarray, Ordering::Less arm: &self.shape[access_index.len()..]
SubarrayShape(shape, access_index) ==
    SubSeq(shape, Len(access_index) + 1, Len(shape))

\* Mutant of SubarrayStart: the prefix components are summed without strides.
SubarrayStartUnstrided(shape, access_index) ==
    ZipSum(access_index, Repeat(1, Len(shape)))

\* get_subarray, Ordering::Less arm: start_index (the shape is not empty
\* there, so _calculate_strides returns).
SubarrayStart(shape, access_index) ==
    ZipSum(access_index, CalculateStrides(shape).val)

\* Mutant of SubarrayData: the slice runs to the end of the buffer.
SubarrayDataToEnd(data, start_index, ret_capacity) ==
    SliceRange(data, start_index, Len(data))

\* get_subarray, Ordering::Less arm:
\* self.data[start_index..start_index + ret_capacity]
SubarrayData(data, start_index, ret_capacity) ==
    SliceRange(data, start_index, start_index + ret_capacity)

\* Mutant of Clone: the returned array keeps the original's buffer.
CloneShared(data, fresh) == data

\* .to_vec() and .clone() allocate: the copy of the buffer at `data` lives at
\* the fresh address.
ToVec(data, fresh) == fresh

Clone(data, fresh) == fresh

\* pub fn get_subarray(&self, access_index) -> StaticArray; the caller binds
\* the returned array to Child (a previous value of the binding is dropped).
GetSubarray(a, access_index) ==
    LET shape == ShapeOf(a)
        call == [NoRet EXCEPT !.op = "get_subarray", !.target = a,
                              !.index = access_index]
        ordering == Cmp(Len(access_index), Len(shape))
        ret_shape == SubarrayShape(shape, access_index)
        ret_capacity == Product(ret_shape)
        start_index == SubarrayStart(shape, access_index)
        data == SubarrayData(DataOf(a), start_index, ret_capacity)
        addr == ToVec(arrays[a].data, Child)
    IN  /\ Live(a)
        /\ IF ordering = "Greater"
           THEN /\ ret' = [call EXCEPT !.err = "IndexOutOfBounds"]
                /\ UNCHANGED <<arrays, heap>>
           ELSE IF ordering = "Equal"
           THEN /\ ret' = [call EXCEPT !.err = "UseScalarAccessInstead"]
                /\ UNCHANGED <<arrays, heap>>
           ELSE IF ~CalculateStrides(shape).ok \/ ~data.ok
           THEN /\ ret' = [call EXCEPT !.err = "RuntimePanic"]
                /\ UNCHANGED <<arrays, heap>>
           ELSE /\ arrays' = Put(arrays, Child,
                                 StaticArray(ret_capacity, addr, ret_shape))
                /\ heap' = Put(heap, addr, data.val)
                /\ ret' = call

\* Mutant of GetView: the new shape is checked against its own product.
GetViewSelfCheck(a, new_shape) ==
    LET new_capacity == Product(new_shape)
        call == [NoRet EXCEPT !.op = "get_view", !.target = a, !.shape = new_shape]
        addr == Clone(arrays[a].data, Child)
    IN  /\ Live(a)
        /\ IF ~CheckShapeCapacityMatch(new_capacity, new_shape)
           THEN /\ ret' = [call EXCEPT !.err = "CapacityMismatch"]
                /\ UNCHANGED <<arrays, heap>>
           ELSE /\ arrays' = Put(arrays, Child,
                                 StaticArray(new_capacity, addr, new_shape))
                /\ heap' = Put(heap, addr, DataOf(a))
                /\ ret' = call

\* pub fn get_view(&self, new_shape) -> StaticArray; the caller binds the
\* returned array to Child.
GetView(a, new_shape) ==
    LET new_capacity == Product(new_shape)
        call == [NoRet EXCEPT !.op = "get_view", !.target = a, !.shape = new_shape]
        addr == Clone(arrays[a].data, Child)
    IN  /\ Live(a)
        /\ IF ~CheckShapeCapacityMatch(CapacityOf(a), new_shape)
           THEN /\ ret' = [call EXCEPT !.err = "CapacityMismatch"]
                /\ UNCHANGED <<arrays, heap>>
           ELSE /\ arrays' = Put(arrays, Child,
                                 StaticArray(new_capacity, addr, new_shape))
                /\ heap' = Put(heap, addr, DataOf(a))
                /\ ret' = call

\* StaticArray { capacity, data, shape }: the struct literal with which the
\* module's own code builds the arrays it compares results against; nothing
\* ties its three fields together.
StructLiteral(slot, capacity, data, shape) ==
    /\ ~Live(slot)
    /\ arrays' = Put(arrays, slot, StaticArray(capacity, slot, shape))
    /\ heap' = Put(heap, slot, data)
    /\ ret' = [NoRet EXCEPT !.op = "struct", !.target = slot, !.shape = shape,
                            !.values = data]

\* Mutant of Eq: the capacities are compared too.
EqWithCapacity(a, b) ==
    /\ DataOf(a) = DataOf(b)
    /\ ShapeOf(a) = ShapeOf(b)
    /\ CapacityOf(a) = CapacityOf(b)

\* impl PartialEq for StaticArray: fn eq(&self, other) -> bool, with
\* ret &= self.data == other.data; ret &= self.shape == other.shape.
Eq(a, b) ==
    LET ret0 == TRUE
        ret1 == ret0 /\ (DataOf(a) = DataOf(b))
        ret2 == ret1 /\ (ShapeOf(a) = ShapeOf(b))
    IN  ret2

\* a == b
CallEq(a, b) ==
    /\ Live(a) /\ Live(b)
    /\ ret' = [NoRet EXCEPT !.op = "eq", !.target = a, !.other = b,
                            !.equal = Eq(a, b)]
    /\ UNCHANGED <<arrays, heap>>

\* The returned array goes out of scope: its Vec is freed with it.
Drop ==
    /\ Live(Child)
    /\ arrays' = Remove(arrays, Child)
    /\ heap' = Remove(heap, arrays[Child].data)
    /\ ret' = [NoRet EXCEPT !.op = "drop", !.target = Child]

\* A panic ends the run: nothing is called after a call that failed.
Running == ret.err = "None"

\* The caller of Spec drops each returned array before its next call.
Idle == Running /\ Live(Parent) /\ ~Live(Child)

\* The multi-indices a caller passes to an array of this shape: of any length
\* up to one more than the rank, each component at most its shape entry (the
\* smallest value out of range), a component past the rank being 0.
RECURSIVE IndicesOfLen(_, _)
IndicesOfLen(shape, k) ==
    IF k = 0 THEN {<<>>}
    ELSE {Append(idx, x) :
             idx \in IndicesOfLen(shape, k - 1),
             x \in 0..(IF k <= Len(shape) THEN shape[k] ELSE 0)}

IndicesFor(shape) == UNION {IndicesOfLen(shape, k) : k \in 0..(Len(shape) + 1)}

\* One array and every call on it, with arguments the checks accept and
\* arguments they refuse.
Next ==
    \/ /\ Running /\ ~Live(Parent)
       /\ \E shape \in Shapes : NewZeros(shape)
    \/ /\ Running /\ ~Live(Parent)
       /\ \E shape \in Shapes : NewOnes(shape)
    \/ /\ Running /\ ~Live(Parent)
       /\ \E shape \in Shapes, v \in Values : NewFill(shape, v)
    \/ /\ Running /\ ~Live(Parent)
       /\ \E values \in Buffers, shape \in Shapes :
             NewFromArray(values, TRUE, shape)
    \/ /\ Running /\ ~Live(Parent)
       /\ \E values \in Buffers : NewFromArray(values, FALSE, <<>>)
    \/ Idle /\ \E idx \in IndicesFor(ShapeOf(Parent)) : GetElementAt(Parent, idx)
    \/ Idle /\ \E idx \in IndicesFor(ShapeOf(Parent)) : Index(Parent, idx)
    \/ Idle /\ \E idx \in IndicesFor(ShapeOf(Parent)), v \in Values :
                IndexMut(Parent, idx, v)
    \/ Idle /\ \E shape \in Shapes : Reshape(Parent, shape)
    \/ Idle /\ \E idx \in IndicesFor(ShapeOf(Parent)) : GetSubarray(Parent, idx)
    \/ Idle /\ \E shape \in Shapes : GetView(Parent, shape)
    \/ Idle /\ CallCalculateStrides(Parent)
    \/ Running /\ Drop

Spec == Init /\ [][Next]_vars

\* A caller that keeps the returned array beside the original and goes on
\* writing to and reshaping both.  Its arguments are the ones the checks
\* accept: constructor and target shapes of the right capacity, multi-indices
\* within bounds, prefixes shorter than the rank.
NextOwners ==
    \/ /\ Running /\ ~Live(Parent)
       /\ \E values \in Buffers, shape \in Shapes :
             /\ Product(shape) = Len(values)
             /\ NewFromArray(values, TRUE, shape)
    \/ /\ Running /\ Live(Parent)
       /\ \E idx \in Indices :
             /\ Len(idx) < Len(ShapeOf(Parent))
             /\ GetSubarray(Parent, idx)
    \/ /\ Running /\ Live(Parent)
       /\ \E shape \in Shapes :
             /\ Product(shape) = CapacityOf(Parent)
             /\ GetView(Parent, shape)
    \/ \E a \in Slots :
          /\ Running /\ Live(a)
          /\ \E idx \in Indices, v \in Values :
                /\ CheckIndexWithinBounds(ShapeOf(a), idx).err = "None"
                /\ IndexMut(a, idx, v)
    \/ \E a \in Slots :
          /\ Running /\ Live(a)
          /\ \E shape \in Shapes :
                /\ Product(shape) = CapacityOf(a)
                /\ Reshape(a, shape)

SpecOwners == Init /\ [][NextOwners]_vars

\* A caller that reads one range of an array each time it has built or
\* reshaped it.  The ends of a range are multi-indices of any length up to one
\* past the rank, with components up to the shape entry itself; the caller
\* gets at least one end within bounds, or passes the same multi-index for
\* both.
NextSlice ==
    \/ /\ Running /\ ~Live(Parent)
       /\ \E values \in Buffers, shape \in Shapes :
             /\ Product(shape) = Len(values)
             /\ NewFromArray(values, TRUE, shape)
    \/ /\ Running /\ Live(Parent)
       /\ \E shape \in Shapes :
             /\ Product(shape) = CapacityOf(Parent)
             /\ Reshape(Parent, shape)
    \/ /\ Running /\ Live(Parent) /\ ret.op # "get_elements_slice"
       /\ \E start \in IndicesFor(ShapeOf(Parent)),
             end \in IndicesFor(ShapeOf(Parent)) :
             /\ \/ CheckIndexWithinBounds(ShapeOf(Parent), start).err = "None"
                \/ CheckIndexWithinBounds(ShapeOf(Parent), end).err = "None"
                \/ start = end
             /\ GetElementsSlice(Parent, start, end)

SpecSlice == Init /\ [][NextSlice]_vars

\* A caller that builds an array, gets a second one to compare it with, and
\* compares them in both orders and each with itself.  The second array is a
\* view or a sub-array of the first, or a struct literal holding copies of the
\* first one's data and shape beside a capacity of its own; the caller may
\* write one element of it before comparing.
NextEq ==
    \/ /\ Running /\ ~Live(Parent)
       /\ \E values \in Buffers, shape \in Shapes :
             /\ Product(shape) = Len(values)
             /\ NewFromArray(values, TRUE, shape)
    \/ /\ Running /\ ~Live(Parent)
       /\ \E values \in Buffers : NewFromArray(values, FALSE, <<>>)
    \/ /\ Running /\ Live(Parent) /\ ~Live(Child)
       /\ \E shape \in Shapes :
             /\ Product(shape) = CapacityOf(Parent)
             /\ GetView(Parent, shape)
    \/ /\ Running /\ Live(Parent) /\ ~Live(Child)
       /\ \E idx \in IndicesFor(ShapeOf(Parent)) :
             /\ Len(idx) < Len(ShapeOf(Parent))
             /\ GetSubarray(Parent, idx)
    \/ /\ Running /\ Live(Parent) /\ ~Live(Child)
       /\ \E capacity \in 0..MaxCap :
             StructLiteral(Child, capacity, DataOf(Parent), ShapeOf(Parent))
    \/ /\ Running /\ Live(Child)
       /\ ret.op \in {"get_view", "get_subarray", "struct"}
       /\ \E idx \in IndicesFor(ShapeOf(Child)), v \in Values :
             /\ CheckIndexWithinBounds(ShapeOf(Child), idx).err = "None"
             /\ IndexMut(Child, idx, v)
    \/ /\ Running /\ Live(Parent) /\ Live(Child)
       /\ \E a \in Slots, b \in Slots : CallEq(a, b)

SpecEq == Init /\ [][NextEq]_vars

(***************************************************************************)
(* Properties.  The definitions below state what the calls must do in      *)
(* terms that do not go through the code's own loops.                      *)
(***************************************************************************)

\* A multi-index is valid iff its length is the rank and every component is
\* below its shape entry.
ValidIndex(shape, idx) ==
    /\ Len(idx) = Len(shape)
    /\ \A d \in 1..Len(idx) : idx[d] < shape[d]

\* A prefix is within bounds iff it is shorter than the rank and every
\* component is below its shape entry.
ValidPrefix(shape, p) ==
    /\ Len(p) < Len(shape)
    /\ \A d \in 1..Len(p) : p[d] < shape[d]

\* Row-major stride of dimension d: the product of the shape entries after d.
RowMajorStride(shape, d) == Product(SubSeq(shape, d + 1, Len(shape)))

\* sum over d <= n of idx[d] * strides[d]
RECURSIVE OffsetUpTo(_, _, _)
OffsetUpTo(shape, idx, n) ==
    IF n = 0 THEN 0
    ELSE idx[n] * RowMajorStride(shape, n) + OffsetUpTo(shape, idx, n - 1)

Offset(shape, idx) == OffsetUpTo(shape, idx, Len(idx))

RECURSIVE ValidIndicesOfLen(_, _)
ValidIndicesOfLen(shape, k) ==
    IF k = 0 THEN {<<>>}
    ELSE {Append(idx, x) :
             idx \in ValidIndicesOfLen(shape, k - 1), x \in 0..(shape[k] - 1)}

\* All multi-indices valid under a shape.
ValidIndicesOf(shape) == ValidIndicesOfLen(shape, Len(shape))

\* What get_element_at returns for a valid multi-index of an array with this
\* shape and buffer.
Elem(shape, data, idx) == data[CalculateFlatIndex(shape, idx).val + 1]

IndexOps == {"get_element_at", "index", "index_mut"}

\* C1: every array that exists, the original and the one returned by
\* get_subarray or get_view, has capacity = product(shape) and a buffer of
\* exactly capacity elements.
C1_CapacityInvariant ==
    \A a \in DOMAIN arrays :
        /\ CapacityOf(a) = Product(ShapeOf(a))
        /\ Len(DataOf(a)) = CapacityOf(a)

\* C1 witness: a rank-3 array of four elements and the two-element array
\* get_subarray returned from it.
C1_Witness ==
    /\ ret.op = "get_subarray" /\ ret.err = "None"
    /\ Live(Parent) /\ Live(Child)
    /\ Len(ShapeOf(Parent)) = 3 /\ CapacityOf(Parent) = 4
    /\ CapacityOf(Child) = 2

\* C2: get_element_at on a multi-index valid under the current shape succeeds
\* and returns data[sum of idx[d] * stride[d]], strides being the row-major
\* strides of the current shape.
C2_GetElementAtIsStrideOffset ==
    (/\ ret.op = "get_element_at"
     /\ ValidIndex(ShapeOf(ret.target), ret.index))
    => /\ ret.err = "None"
       /\ Offset(ShapeOf(ret.target), ret.index) < Len(DataOf(ret.target))
       /\ ret.out = DataOf(ret.target)[Offset(ShapeOf(ret.target), ret.index) + 1]

\* C2 witness: reading [1,0,1] of a [2,1,2] array returns the element at
\* offset 1*2 + 0*2 + 1*1 = 3, the only 1 in the buffer.
C2_Witness ==
    /\ ret.op = "get_element_at" /\ ret.err = "None"
    /\ ShapeOf(Parent) = <<2, 1, 2>>
    /\ ret.index = <<1, 0, 1>>
    /\ DataOf(Parent) = <<0, 0, 0, 1>>
    /\ ret.out = 1

\* C3: get_element_at, the read index operator and the write index operator
\* validate alike: a multi-index whose length is not the rank fails with
\* DimensionMismatch; otherwise one with a component >= its shape entry fails
\* with IndexOutOfBounds for the first such dimension; otherwise the call
\* succeeds; and a call that fails leaves the arrays and buffers as they were.
C3_Step ==
    ret'.op \in IndexOps =>
        LET shape == ShapeOf(ret'.target)
            idx == ret'.index
            bad == {d \in 1..Len(idx) : idx[d] >= shape[d]}
        IN  /\ Len(idx) # Len(shape) => ret'.err = "DimensionMismatch"
            /\ (Len(idx) = Len(shape) /\ bad # {}) =>
                  /\ ret'.err = "IndexOutOfBounds"
                  /\ ret'.dim + 1 \in bad
                  /\ \A d \in bad : ret'.dim + 1 <= d
            /\ (Len(idx) = Len(shape) /\ bad = {}) => ret'.err = "None"
            /\ ret'.err # "None" => arrays' = arrays /\ heap' = heap

C4_Step ==
    ret'.op = "reshape" =>
        LET a == ret'.target
        IN  /\ ret'.err = "None" <=> Product(ret'.shape) = CapacityOf(a)
            /\ ret'.err = "None" =>
                  /\ arrays'[a].shape = ret'.shape
                  /\ arrays'[a].capacity = CapacityOf(a)
                  /\ heap'[arrays'[a].data] = DataOf(a)
            /\ ret'.err # "None" =>
                  /\ ret'.err = "CapacityMismatch"
                  /\ arrays' = arrays /\ heap' = heap

C4_Reshape == [][C4_Step]_vars

\* C4 witness: an array of four elements, not all equal, reshaped to [2,1,2].
C4_Witness ==
    /\ ret.op = "reshape" /\ ret.err = "None"
    /\ ret.shape = <<2, 1, 2>>
    /\ ShapeOf(Parent) = <<2, 1, 2>>
    /\ DataOf(Parent) = <<0, 1, 1, 0>>

\* C5: a write at a valid multi-index i with value v makes get_element_at(i)
\* return v, leaves get_element_at(j) as it was for every other valid j (no
\* two valid multi-indices share a buffer position), and leaves shape and
\* capacity alone.
C5_Step ==
    (ret'.op = "index_mut" /\ ret'.err = "None") =>
        LET a == ret'.target
            i == ret'.index
            shape == ShapeOf(a)
            after == heap'[arrays'[a].data]
        IN  /\ arrays'[a].shape = shape
            /\ arrays'[a].capacity = CapacityOf(a)
            /\ Len(after) = Len(DataOf(a))
            /\ Elem(shape, after, i) = ret'.value
            /\ \A j \in ValidIndicesOf(shape) :
                  j # i =>
                     /\ Elem(shape, after, j) = Elem(shape, DataOf(a), j)
                     /\ CalculateFlatIndex(shape, j).val
                           # CalculateFlatIndex(shape, i).val

C5_WriteOneElement == [][C5_Step]_vars

\* C5 witness: 1 written at [1,0] of a [2,2] array whose other elements are 0.
C5_Witness ==
    /\ ret.op = "index_mut" /\ ret.err = "None"
    /\ ret.index = <<1, 0>> /\ ret.value = 1
    /\ ShapeOf(Parent) = <<2, 2>>
    /\ DataOf(Parent) = <<0, 0, 1, 0>>

\* C6: for a prefix p within bounds, of length k < rank, get_subarray(p)
\* returns an array S with S.shape = shape[k..], S.capacity = product of it
\* and S.data = data[offset .. offset + S.capacity], offset being the sum of
\* p[d] * stride[d] over the parent's row-major strides; so S.get(j) =
\* parent.get(p ++ j) for every multi-index j valid in S.
C6_SubarrayIsParentBlock ==
    (/\ ret.op = "get_subarray"
     /\ ValidPrefix(ShapeOf(ret.target), ret.index))
    => LET p == ret.index
           shape == ShapeOf(ret.target)
           data == DataOf(ret.target)
           tail == SubSeq(shape, Len(p) + 1, Len(shape))
           offset == Offset(shape, p)
       IN  /\ ret.err = "None"
           /\ Live(Child)
           /\ ShapeOf(Child) = tail
           /\ CapacityOf(Child) = Product(tail)
           /\ offset + Product(tail) <= Len(data)
           /\ DataOf(Child) = SubSeq(data, offset + 1, offset + Product(tail))
           /\ \A j \in ValidIndicesOf(tail) :
                 Elem(tail, DataOf(Child), j) = Elem(shape, data, p \o j)

\* C6 witness: get_subarray([1,0]) of a [2,1,2] array holding 0,1,1,0 returns
\* the [2] array holding 1,0.
C6_Witness ==
    /\ ret.op = "get_subarray" /\ ret.err = "None"
    /\ ret.index = <<1, 0>>
    /\ ShapeOf(Parent) = <<2, 1, 2>>
    /\ DataOf(Parent) = <<0, 1, 1, 0>>
    /\ Live(Child)
    /\ ShapeOf(Child) = <<2>>
    /\ DataOf(Child) = <<1, 0>>

\* C7: get_subarray fails with UseScalarAccessInstead when the prefix is as
\* long as the rank and with IndexOutOfBounds when it is longer, returning no
\* array and leaving the parent as it was; an array is returned only for a
\* prefix shorter than the rank.
C7_Step ==
    ret'.op = "get_subarray" =>
        LET shape == ShapeOf(ret'.target)
            p == ret'.index
        IN  /\ Len(p) = Len(shape) =>
                  /\ ret'.err = "UseScalarAccessInstead"
                  /\ arrays' = arrays /\ heap' = heap
            /\ Len(p) > Len(shape) =>
                  /\ ret'.err = "IndexOutOfBounds"
                  /\ arrays' = arrays /\ heap' = heap
            /\ (ret'.err = "None" \/ arrays' # arrays) => Len(p) < Len(shape)

C7_SubarrayPrefixLength == [][C7_Step]_vars

\* C7 witness: a prefix of three components on a rank-3 array is refused.
C7_Witness ==
    /\ ret.op = "get_subarray" /\ ret.err = "UseScalarAccessInstead"
    /\ Len(ret.index) = 3
    /\ Len(ShapeOf(Parent)) = 3
    /\ ~Live(Child)

\* C8: the array returned by get_subarray or get_view shares no buffer with
\* the array it was taken from: a write or a reshape on either leaves the
\* other's data and shape as they were.
C8_Step ==
    /\ (Parent \in DOMAIN arrays' /\ Child \in DOMAIN arrays') =>
          arrays'[Parent].data # arrays'[Child].data
    /\ (ret'.op \in {"index_mut", "reshape"} /\ ret'.err = "None") =>
          \A b \in (DOMAIN arrays) \ {ret'.target} :
             /\ arrays'[b] = arrays[b]
             /\ heap'[arrays'[b].data] = heap[arrays[b].data]

C8_NoAliasing == [][C8_Step]_vars

\* C8 witness: after get_view, writes to the returned array have made it all
\* ones while the original is still all zeros.
C8_Witness ==
    /\ ret.op = "index_mut" /\ ret.target = Child /\ ret.err = "None"
    /\ Live(Parent) /\ Live(Child)
    /\ ShapeOf(Parent) = <<2, 2>>
    /\ ShapeOf(Child) = <<2, 2>>
    /\ DataOf(Parent) = <<0, 0, 0, 0>>
    /\ DataOf(Child) = <<1, 1, 1, 1>>

\* C9: get_view succeeds iff product(new_shape) = capacity, the precondition
\* of reshape, and otherwise fails with CapacityMismatch; on success the
\* returned array has shape new_shape and the original's data; either way the
\* original's shape, data and capacity are as before.
C9_Step ==
    ret'.op = "get_view" =>
        LET a == ret'.target
        IN  /\ ret'.err = "None" <=> Product(ret'.shape) = CapacityOf(a)
            /\ ret'.err # "None" =>
                  /\ ret'.err = "CapacityMismatch"
                  /\ arrays' = arrays /\ heap' = heap
            /\ ret'.err = "None" =>
                  /\ Child \in DOMAIN arrays'
                  /\ arrays'[Child].shape = ret'.shape
                  /\ heap'[arrays'[Child].data] = DataOf(a)
            /\ arrays'[a] = arrays[a]
            /\ heap'[arrays'[a].data] = DataOf(a)

C9_GetView == [][C9_Step]_vars

\* C9 witness: a [2,2] array holding 0,1,1,0 viewed as [1,2,2].
C9_Witness ==
    /\ ret.op = "get_view" /\ ret.err = "None"
    /\ ShapeOf(Parent) = <<2, 2>>
    /\ DataOf(Parent) = <<0, 1, 1, 0>>
    /\ Live(Child)
    /\ ShapeOf(Child) = <<1, 2, 2>>
    /\ DataOf(Child) = <<0, 1, 1, 0>>

\* C10: new_from_array with a shape whose product is not len(values) fails
\* with ShapeMismatch and produces no array; with a shape whose product
\* matches, the array has data = values and that shape; with no shape, the
\* array has data = values and shape [len(values)].
C10_NewFromArray ==
    ret.op = "new_from_array" =>
        /\ (ret.some /\ Product(ret.shape) # Len(ret.values)) =>
              /\ ret.err = "ShapeMismatch"
              /\ ~Live(Parent)
        /\ (ret.some /\ Product(ret.shape) = Len(ret.values)) =>
              /\ ret.err = "None"
              /\ Live(Parent)
              /\ DataOf(Parent) = ret.values
              /\ ShapeOf(Parent) = ret.shape
        /\ ~ret.some =>
              /\ ret.err = "None"
              /\ Live(Parent)
              /\ DataOf(Parent) = ret.values
              /\ ShapeOf(Parent) = <<Len(ret.values)>>

\* C10 witness: three values and no shape give a one-dimensional array of
\* length 3.
C10_Witness ==
    /\ ret.op = "new_from_array" /\ ret.err = "None"
    /\ ~ret.some
    /\ ret.values = <<0, 1, 1>>
    /\ DataOf(Parent) = <<0, 1, 1>>
    /\ ShapeOf(Parent) = <<3>>

\* C11: for start and end both valid under the current shape,
\* get_elements_slice fails with InvalidRange when the flat offset of start is
\* greater than that of end, and otherwise returns data[flat(start)] ..
\* data[flat(end) - 1] in order (flat(end) - flat(start) elements, none when
\* start = end); the array is unchanged.
C11_Step ==
    (/\ ret'.op = "get_elements_slice"
     /\ ValidIndex(ShapeOf(ret'.target), ret'.index)
     /\ ValidIndex(ShapeOf(ret'.target), ret'.index_end))
    => LET shape == ShapeOf(ret'.target)
           data == DataOf(ret'.target)
           start == Offset(shape, ret'.index)
           end == Offset(shape, ret'.index_end)
       IN  /\ arrays' = arrays
           /\ heap' = heap
           /\ IF start > end
              THEN /\ ret'.err = "InvalidRange"
                   /\ ret'.slice = <<>>
              ELSE /\ ret'.err = "None"
                   /\ Len(ret'.slice) = end - start
                   /\ \A k \in 1..(end - start) :
                         ret'.slice[k] = data[start + k]
                   /\ (ret'.index = ret'.index_end) => ret'.slice = <<>>

C11_GetElementsSlice == [][C11_Step]_vars

\* C11 witness: the range [0,1] .. [1,1] of a [2,2] array, which runs over the
\* end of the first row.
C11_Witness ==
    /\ ret.op = "get_elements_slice" /\ ret.err = "None"
    /\ ShapeOf(Parent) = <<2, 2>>
    /\ DataOf(Parent) = <<0, 1, 0, 1>>
    /\ ret.index = <<0, 1>> /\ ret.index_end = <<1, 1>>
    /\ ret.slice = <<1, 0>>

\* C12: for every shape vector the derived strides have the length of the
\* shape, the last stride is 1 and strides[i] = strides[i+1] * shape[i+1] for
\* every earlier position; computing them does not modify the array.
C12_Step ==
    (ret'.op = "_calculate_strides") =>
        LET shape == ShapeOf(ret'.target)
            strides == ret'.strides
            n == Len(shape)
        IN  /\ ret'.err = "None"
            /\ Len(strides) = n
            /\ (n > 0) => strides[n] = 1
            /\ \A i \in 1..(n - 1) : strides[i] = strides[i + 1] * shape[i + 1]
            /\ arrays' = arrays
            /\ heap' = heap

C12_StridesRowMajor == [][C12_Step]_vars

\* C13: two arrays compare equal if and only if their data sequences are
\* element-wise equal and their shapes are equal; the capacity field takes no
\* part, and equal flat data under different shapes does not compare equal.
C13_Equality ==
    (ret.op = "eq") =>
        LET x == DataOf(ret.target)
            y == DataOf(ret.other)
            same_data == /\ Len(x) = Len(y)
                         /\ \A k \in 1..Len(x) : x[k] = y[k]
            same_shape == ShapeOf(ret.target) = ShapeOf(ret.other)
        IN  ret.equal <=> (same_data /\ same_shape)

\* C13 witness: [0,1,1,0] shaped [4] compared with its view shaped [2,2]: the
\* same flat data, and the arrays are not equal.
C13_Witness ==
    /\ ret.op = "eq" /\ ret.target = Parent /\ ret.other = Child
    /\ DataOf(Parent) = <<0, 1, 1, 0>> /\ DataOf(Child) = <<0, 1, 1, 0>>
    /\ ShapeOf(Parent) = <<4>> /\ ShapeOf(Child) = <<2, 2>>
    /\ ~ret.equal

\* C14: get_subarray with a prefix p shorter than the rank validates each
\* component of p against the current shape: if some p[d] >= shape[d] the call
\* fails with IndexOutOfBounds and returns no array, so every element of a
\* returned sub-array is an element the parent holds at a multi-index that
\* begins with p.
C14_SubarrayPrefixChecked ==
    (/\ ret.op = "get_subarray"
     /\ Len(ret.index) < Len(ShapeOf(ret.target)))
    => LET p == ret.index
           shape == ShapeOf(ret.target)
           data == DataOf(ret.target)
       IN  /\ (\E d \in 1..Len(p) : p[d] >= shape[d]) =>
                 /\ ret.err = "IndexOutOfBounds"
                 /\ ~Live(Child)
           /\ (ret.err = "None") =>
                 /\ Live(Child)
                 /\ \A j \in ValidIndicesOf(ShapeOf(Child)) :
                       /\ ValidIndex(shape, p \o j)
                       /\ Elem(ShapeOf(Child), DataOf(Child), j)
                             = data[Offset(shape, p \o j) + 1]

\* The bounds-check error of a multi-index that is not valid under a shape.
BoundsError(shape, idx) ==
    IF Len(idx) # Len(shape) THEN "DimensionMismatch" ELSE "IndexOutOfBounds"

\* C15: get_elements_slice with an invalid start or end (wrong length, or a
\* component >= its shape entry) fails with the bounds-check error for that
\* index, DimensionMismatch or IndexOutOfBounds, and never returns a slice,
\* whatever the relative order of the two indices.
C15_SliceBoundsChecked ==
    LET shape == ShapeOf(ret.target)
        invalid == {idx \in {ret.index, ret.index_end} : ~ValidIndex(shape, idx)}
    IN  (ret.op = "get_elements_slice" /\ invalid # {}) =>
            /\ ret.err \in {BoundsError(shape, idx) : idx \in invalid}
            /\ ret.slice = <<>>

====
